---- MODULE Spec2Model ----
(***************************************************************************)
(* Yellowstone_Wolf_Population_Models.ipynb: the hand-written Euler        *)
(* integrator integrate_piecewise, the right-hand sides logistic_piecewise *)
(* and logistic_human, and the notebook's cells run against one kernel     *)
(* namespace.                                                              *)
(*                                                                         *)
(* Numbers are exact rationals <<n, d>> with d > 0 in lowest terms,        *)
(* extended with the three non-finite IEEE values a numpy division by zero *)
(* yields: <<1, 0>> (inf), <<-1, 0>> (-inf) and <<0, 0>> (nan).            *)
(***************************************************************************)
EXTENDS Integers, Sequences, FiniteSets, TLC

\* ------------------------------------------------------------ bounds
MaxLen == 3          \* longest time grid
MaxExec == 8         \* cell executions in one kernel session
MaxPop == 5          \* populations -MaxPop .. MaxPop, in halves, given to logistic_human

\* ------------------------------------------------------- arithmetic
Abs(x) == IF x < 0 THEN -x ELSE x

Sgn(x) == IF x < 0 THEN -1 ELSE IF x > 0 THEN 1 ELSE 0

RECURSIVE GCD(_, _)
GCD(a, b) == IF b = 0 THEN a ELSE GCD(b, a % b)

\* n / d in lowest terms; d # 0.
Norm(n, d) ==
  LET g == GCD(Abs(n), Abs(d))
      s == Sgn(d)
  IN <<(s * n) \div g, Abs(d) \div g>>

Num(x) == <<x, 1>>
NaN == <<0, 0>>
Inf(s) == <<s, 0>>
IsFinite(a) == a[2] # 0
IsNaN(a) == a = NaN

FNeg(a) == <<-a[1], a[2]>>

FAdd(a, b) ==
  IF IsNaN(a) \/ IsNaN(b) THEN NaN
  ELSE IF ~IsFinite(a) /\ ~IsFinite(b) THEN (IF a = b THEN a ELSE NaN)
  ELSE IF ~IsFinite(a) THEN a
  ELSE IF ~IsFinite(b) THEN b
  ELSE LET g == GCD(a[2], b[2])
       IN Norm(a[1] * (b[2] \div g) + b[1] * (a[2] \div g), (a[2] \div g) * b[2])

FSub(a, b) == FAdd(a, FNeg(b))

FMul(a, b) ==
  IF IsNaN(a) \/ IsNaN(b) THEN NaN
  ELSE IF IsFinite(a) /\ IsFinite(b)
    THEN LET g1 == GCD(Abs(a[1]), b[2])
             g2 == GCD(Abs(b[1]), a[2])
         IN Norm((a[1] \div g1) * (b[1] \div g2), (a[2] \div g2) * (b[2] \div g1))
  ELSE IF Sgn(a[1]) * Sgn(b[1]) = 0 THEN NaN
  ELSE Inf(Sgn(a[1]) * Sgn(b[1]))

\* IEEE division, as numpy performs it: x / 0 is inf, -inf or nan (with a warning).
FDiv(a, b) ==
  IF IsNaN(a) \/ IsNaN(b) THEN NaN
  ELSE IF ~IsFinite(b) THEN (IF IsFinite(a) THEN Num(0) ELSE NaN)
  ELSE IF b[1] = 0 THEN (IF a[1] = 0 THEN NaN ELSE Inf(Sgn(a[1])))
  ELSE IF ~IsFinite(a) THEN Inf(Sgn(a[1]) * Sgn(b[1]))
  ELSE FMul(a, Norm(b[2], b[1]))

\* Comparisons are false on nan.
FLess(a, b) ==
  /\ ~IsNaN(a) /\ ~IsNaN(b) /\ a # b
  /\ IF IsFinite(a) /\ IsFinite(b) THEN FSub(a, b)[1] < 0
     ELSE IF ~IsFinite(a) THEN a[1] < 0
     ELSE b[1] > 0

FLeq(a, b) == ~IsNaN(a) /\ ~IsNaN(b) /\ (a = b \/ FLess(a, b))

\* -------------------------------------------------- typed values
\* A value carries the type that decides how Python divides it: "py" for a
\* Python int or float (division by zero raises ZeroDivisionError), "np" for a
\* numpy.float64 (division by zero yields inf or nan).
Val(v, k) == [v |-> v, k |-> k]
Kind(a, b) == IF a.k = "np" \/ b.k = "np" THEN "np" ELSE "py"
VAdd(a, b) == Val(FAdd(a.v, b.v), Kind(a, b))
VSub(a, b) == Val(FSub(a.v, b.v), Kind(a, b))
VMul(a, b) == Val(FMul(a.v, b.v), Kind(a, b))
VDiv(a, b) == Val(FDiv(a.v, b.v), Kind(a, b))
DivRaises(a, b) == a.k = "py" /\ b.k = "py" /\ b.v = Num(0)

\* ------------------------------------------------------- inputs
P0Values == 0 .. 2
KValues == 0 .. 3
RValues == {<<1, 2>>, <<1, 1>>}
TimeValues == 0 .. 3
ChangeValues == 0 .. 4
Kinds == {"py", "np"}
RECURSIVE SeqsUpTo(_, _)
SeqsUpTo(S, n) ==
  IF n = 0 THEN {<<>>}
  ELSE LET prev == SeqsUpTo(S, n - 1)
       IN prev \cup {Append(s, x) : s \in {q \in prev : Len(q) = n - 1}, x \in S}
Grids == SeqsUpTo(TimeValues, MaxLen)

\* Python index: t[i] with i counted from 0.
At(s, i) == s[i + 1]
Last(s) == s[Len(s)]

VARIABLES
  P0, P0kind, t, r, K_high, K_low, t_change,   \* arguments of integrate_piecewise
  pc, dt, P, i, K, dP, err,                    \* its locals and its outcome
  ns, outcome, execution_count,                \* the notebook kernel
  hArgs, hOut                                  \* one evaluation of logistic_human

callVars == <<P0, P0kind, t, r, K_high, K_low, t_change>>
localVars == <<pc, dt, P, i, K, dP, err>>
nbVars == <<ns, outcome, execution_count>>
hVars == <<hArgs, hOut>>
vars == <<callVars, localVars, nbVars, hVars>>

None == "None"

\* ------------------------------------------------ right-hand sides
\* logistic_growth(P, t, r, K): r * P * (1 - P / K)
logistic_growth(Pv, tv, rv, Kv) ==
  VMul(VMul(rv, Pv), VSub(Val(Num(1), "py"), VDiv(Pv, Kv)))

\* logistic_piecewise(P, t, r, K_high, K_low, t_change)
logistic_piecewise(Pv, tv, rv, Kh, Kl, tc) ==
  LET Kv == IF FLess(tv.v, tc.v) THEN Kh ELSE Kl
  IN VMul(VMul(rv, Pv), VSub(Val(Num(1), "py"), VDiv(Pv, Kv)))

\* Variant: the removal is added instead of subtracted.
logistic_human_PlusH(Pv, tv, rv, Kv, hv) ==
  VAdd(VMul(VMul(rv, Pv), VSub(Val(Num(1), "py"), VDiv(Pv, Kv))), hv)

\* logistic_human(P, t, r, K, h): r * P * (1 - P / K) - h
logistic_human(Pv, tv, rv, Kv, hv) ==
  VSub(VMul(VMul(rv, Pv), VSub(Val(Num(1), "py"), VDiv(Pv, Kv))), hv)

\* ---------------------------------------------- integrate_piecewise
\* The arguments as Python sees them: P0, r, K_high, K_low and t_change are
\* Python numbers (P0 possibly a numpy scalar); t is a numpy array, as
\* np.linspace returns it, so t[1] - t[0] is a numpy.float64.
vP0 == Val(Num(P0), P0kind)
vr == Val(r, "py")
vT(j) == Val(Num(At(t, j)), "np")

\* dt = t[1] - t[0]
StepSize == VSub(vT(1), vT(0))

\* Variant: the switch looks at the previous grid time.
StepK_PreviousTime == IF At(t, i - 1) < t_change THEN K_high ELSE K_low

\* Variant: the capacity never switches.
StepK_NoSwitch == K_high

\* K = K_high if t[i] < t_change else K_low
StepK == IF At(t, i) < t_change THEN K_high ELSE K_low

\* Variant: the crowding term is added instead of subtracted.
StepdP_PlusRatio(Kv) ==
  VMul(VMul(vr, Last(P)), VAdd(Val(Num(1), "py"), VDiv(Last(P), Val(Num(Kv), "py"))))

\* dP = r * P[-1] * (1 - P[-1] / K)
StepdP(Kv) ==
  VMul(VMul(vr, Last(P)), VSub(Val(Num(1), "py"), VDiv(Last(P), Val(Num(Kv), "py"))))

\* Variant: the new value overwrites the last entry instead of being appended.
StepAppend_Overwrite(dPv) == [P EXCEPT ![Len(P)] = VAdd(Last(P), VMul(dPv, dt))]

\* P.append(P[-1] + dP * dt)
StepAppend(dPv) == Append(P, VAdd(Last(P), VMul(dPv, dt)))


\* ----------------------------------------------------- the notebook
\* A statement of a cell: the name it binds (None for a call made for its
\* effect), what it computes, and the global names it reads, in order. Its
\* value is the term <<fn, values read>>: equal inputs give equal results.
St(target, fn, args) == [target |-> target, fn |-> fn, args |-> args]

CellNames == {"logistic", "lotka_volterra", "piecewise", "removal"}

\* import numpy as np; import matplotlib.pyplot as plt; from scipy.integrate import odeint
Imports == <<
  St("np", "import numpy", <<>>),
  St("plt", "import matplotlib.pyplot", <<>>),
  St("odeint", "from scipy.integrate import odeint", <<>>),
  St(None, "np.random.seed(42)", <<"np">>) >>

CellLogistic == <<
  St("logistic_growth", "def logistic_growth", <<>>),
  St("r", "0.3", <<>>),
  St("K", "500", <<>>),
  St("P0", "50", <<>>),
  St("t", "np.linspace(0, 40, 400)", <<"np">>),
  St("P", "odeint(f, y0, t, args=(r, K))",
     <<"odeint", "logistic_growth", "P0", "t", "r", "K">>),
  St(None, "plot", <<"plt", "t", "P">>) >>

\* Variant: the wolf growth rate is bound to r, the logistic cell's name.
CellLotkaVolterra_RebindsR == <<
  St("lotka_volterra", "def lotka_volterra", <<>>),
  St("r", "0.1", <<>>),
  St("b", "0.01", <<>>),
  St("c", "0.1", <<>>),
  St("d", "0.005", <<>>),
  St("W0", "40", <<>>),
  St("E0", "800", <<>>),
  St("t2", "np.linspace(0, 80, 800)", <<"np">>),
  St("sol", "odeint(f, [W0, E0], t, args=(a, b, c, d))",
     <<"odeint", "lotka_volterra", "W0", "E0", "t2", "r", "b", "c", "d">>),
  St("W", "sol[:,0]", <<"sol">>),
  St("E", "sol[:,1]", <<"sol">>),
  St(None, "plot", <<"plt", "t2", "W", "E">>) >>

CellLotkaVolterra == <<
  St("lotka_volterra", "def lotka_volterra", <<>>),
  St("a", "0.1", <<>>),
  St("b", "0.01", <<>>),
  St("c", "0.1", <<>>),
  St("d", "0.005", <<>>),
  St("W0", "40", <<>>),
  St("E0", "800", <<>>),
  St("t2", "np.linspace(0, 80, 800)", <<"np">>),
  St("sol", "odeint(f, [W0, E0], t, args=(a, b, c, d))",
     <<"odeint", "lotka_volterra", "W0", "E0", "t2", "a", "b", "c", "d">>),
  St("W", "sol[:,0]", <<"sol">>),
  St("E", "sol[:,1]", <<"sol">>),
  St(None, "plot", <<"plt", "t2", "W", "E">>) >>

CellPiecewise == <<
  St("K_high", "500", <<>>),
  St("K_low", "200", <<>>),
  St("t3", "np.linspace(0, 40, 400)", <<"np">>),
  St("logistic_piecewise", "def logistic_piecewise", <<>>),
  St("integrate_piecewise", "def integrate_piecewise", <<>>),
  St("t_change", "15", <<>>),
  St("P3", "integrate_piecewise(P0, t, r, K_high, K_low, t_change)",
     <<"integrate_piecewise", "P0", "t3", "r", "K_high", "K_low", "t_change", "np">>),
  St(None, "plot", <<"plt", "t3", "P3", "t_change">>) >>

CellRemoval == <<
  St("logistic_human", "def logistic_human", <<>>),
  St("h", "10", <<>>),
  St("P4", "odeint(f, y0, t, args=(r, K, h))",
     <<"odeint", "logistic_human", "P0", "t", "r", "K", "h">>),
  St(None, "plot", <<"plt", "t", "P", "P4">>) >>

CellSource(c) ==
  CASE c = "logistic" -> CellLogistic
    [] c = "lotka_volterra" -> CellLotkaVolterra
    [] c = "piecewise" -> CellPiecewise
    [] c = "removal" -> CellRemoval

\* The name each scenario binds its trajectory to.
Trajectory(c) ==
  CASE c = "logistic" -> "P"
    [] c = "lotka_volterra" -> "sol"
    [] c = "piecewise" -> "P3"
    [] c = "removal" -> "P4"

\* The kernel's globals: a function from the bound names to their values.
Bound(g, n) == n \in DOMAIN g
Bind(g, n, v) == [x \in DOMAIN g \cup {n} |-> IF x = n THEN v ELSE g[x]]

\* The kernel runs a cell statement by statement; reading an unbound global
\* raises NameError and ends the cell, with the earlier bindings kept.
RECURSIVE Exec(_, _, _)
Exec(stmts, k, g) ==
  IF k > Len(stmts) THEN [g |-> g, status |-> "ok"]
  ELSE LET s == stmts[k]
       IN IF \E j \in 1 .. Len(s.args) : ~Bound(g, s.args[j])
            THEN [g |-> g, status |-> "NameError"]
          ELSE LET v == <<s.fn, [j \in 1 .. Len(s.args) |-> g[s.args[j]]]>>
               IN Exec(stmts, k + 1, IF s.target = None THEN g ELSE Bind(g, s.target, v))

\* The globals once only the imports have run.
ImportsOnly == Exec(Imports, 1, <<>>).g

\* What executing cell c does to the globals, and how it ends.
CellResult(c) == Exec(CellSource(c), 1, ns)

RunLogistic ==
  /\ pc = "call" /\ execution_count < MaxExec
  /\ ns' = CellResult("logistic").g
  /\ outcome' = [outcome EXCEPT !["logistic"] = CellResult("logistic").status]
  /\ execution_count' = execution_count + 1
  /\ UNCHANGED <<callVars, localVars, hVars>>

RunLotkaVolterra ==
  /\ pc = "call" /\ execution_count < MaxExec
  /\ ns' = CellResult("lotka_volterra").g
  /\ outcome' = [outcome EXCEPT !["lotka_volterra"] = CellResult("lotka_volterra").status]
  /\ execution_count' = execution_count + 1
  /\ UNCHANGED <<callVars, localVars, hVars>>

RunPiecewise ==
  /\ pc = "call" /\ execution_count < MaxExec
  /\ ns' = CellResult("piecewise").g
  /\ outcome' = [outcome EXCEPT !["piecewise"] = CellResult("piecewise").status]
  /\ execution_count' = execution_count + 1
  /\ UNCHANGED <<callVars, localVars, hVars>>

RunRemoval ==
  /\ pc = "call" /\ execution_count < MaxExec
  /\ ns' = CellResult("removal").g
  /\ outcome' = [outcome EXCEPT !["removal"] = CellResult("removal").status]
  /\ execution_count' = execution_count + 1
  /\ UNCHANGED <<callVars, localVars, hVars>>

\* The kernel after the imports cell; no call of integrate_piecewise is
\* traced in this specification.
InitNotebook ==
  /\ ns = ImportsOnly
  /\ outcome = [c \in CellNames |-> "notrun"]
  /\ execution_count = 1
  /\ P0 = 0 /\ P0kind = "py" /\ t = <<>> /\ r = Num(0)
  /\ K_high = 0 /\ K_low = 0 /\ t_change = 0
  /\ pc = "call" /\ dt = None /\ P = <<>> /\ i = 0 /\ K = None /\ dP = None
  /\ err = None
  /\ hArgs = None /\ hOut = <<>>

NextNotebook == RunLogistic \/ RunLotkaVolterra \/ RunPiecewise \/ RunRemoval

SpecNotebook == InitNotebook /\ [][NextNotebook]_vars

\* The globals after the cells have run top to bottom.
NotebookOrder ==
  LET g1 == Exec(CellLogistic, 1, ImportsOnly).g
      g2 == Exec(CellLotkaVolterra, 1, g1).g
      g3 == Exec(CellPiecewise, 1, g2).g
  IN Exec(CellRemoval, 1, g3).g

Init ==
  /\ P0 \in P0Values /\ P0kind \in Kinds
  /\ t \in Grids
  /\ r \in RValues
  /\ K_high \in KValues /\ K_low \in KValues
  /\ t_change \in ChangeValues
  /\ pc = "call" /\ dt = None /\ P = <<>> /\ i = 0 /\ K = None /\ dP = None
  /\ err = None
  /\ ns = <<>> /\ outcome = <<>> /\ execution_count = 0
  /\ hArgs = None /\ hOut = <<>>

\* dt = t[1] - t[0]; P = [P0]; the loop starts at i = 1.
Begin ==
  /\ pc = "call" /\ Len(t) >= 2
  /\ dt' = StepSize
  /\ P' = <<vP0>>
  /\ i' = 1
  /\ pc' = "loop"
  /\ UNCHANGED <<K, dP, err, callVars, nbVars, hVars>>

\* t[1] (or t[0]) does not exist: the subscript raises IndexError.
BeginIndexError ==
  /\ pc = "call" /\ Len(t) < 2
  /\ pc' = "raised" /\ err' = "IndexError"
  /\ UNCHANGED <<dt, P, i, K, dP, callVars, nbVars, hVars>>

\* One iteration of `for i in range(1, len(t))`.
Step ==
  /\ pc = "loop" /\ i < Len(t)
  /\ ~DivRaises(Last(P), Val(Num(StepK), "py"))
  /\ K' = StepK
  /\ dP' = StepdP(StepK)
  /\ P' = StepAppend(StepdP(StepK))
  /\ i' = i + 1
  /\ UNCHANGED <<pc, dt, err, callVars, nbVars, hVars>>

\* P[-1] / K with a Python number P[-1] and K == 0 raises ZeroDivisionError.
StepZeroDivision ==
  /\ pc = "loop" /\ i < Len(t)
  /\ DivRaises(Last(P), Val(Num(StepK), "py"))
  /\ K' = StepK
  /\ pc' = "raised" /\ err' = "ZeroDivisionError"
  /\ UNCHANGED <<dt, P, i, dP, callVars, nbVars, hVars>>

\* return np.array(P)
Return ==
  /\ pc = "loop" /\ i >= Len(t)
  /\ pc' = "done"
  /\ UNCHANGED <<dt, P, i, K, dP, err, callVars, nbVars, hVars>>

Next == Begin \/ BeginIndexError \/ Step \/ StepZeroDivision \/ Return

Spec == Init /\ [][Next]_vars

\* ------------------------------------------------- logistic_human
\* odeint hands the right-hand side a numpy state and a numpy time; r, K and
\* h are the caller's Python numbers.
HumanPValues == {Norm(n, 2) : n \in (0 - 2 * MaxPop) .. (2 * MaxPop)}
HumanKValues == 0 .. 4
HumanHValues == 0 .. 2

InitHuman ==
  /\ hArgs \in [P : HumanPValues, r : RValues, K : HumanKValues, h : HumanHValues]
  /\ hOut = <<>>
  /\ ns = <<>> /\ outcome = <<>> /\ execution_count = 0
  /\ P0 = 0 /\ P0kind = "py" /\ t = <<>> /\ r = Num(0)
  /\ K_high = 0 /\ K_low = 0 /\ t_change = 0
  /\ pc = "idle" /\ dt = None /\ P = <<>> /\ i = 0 /\ K = None /\ dP = None
  /\ err = None

\* return r * P * (1 - P / K) - h
EvalHuman ==
  /\ hOut = <<>>
  /\ hOut' = << logistic_human(Val(hArgs.P, "np"), Val(Num(0), "np"),
                              Val(hArgs.r, "py"),
                              Val(Num(hArgs.K), "py"), Val(Num(hArgs.h), "py")) >>
  /\ UNCHANGED <<hArgs, callVars, localVars, nbVars>>

NextHuman == EvalHuman

SpecHuman == InitHuman /\ [][NextHuman]_vars

\* ------------------------------------------------------------ claims
StrictlyIncreasing(s) == \A j \in 1 .. Len(s) - 1 : s[j] < s[j + 1]
Uniform(s) == \A j \in 1 .. Len(s) - 1 : s[j + 1] - s[j] = s[2] - s[1]
Running == pc \in {"loop", "done"}
\* The capacity the code uses for the step that produces P[j].
KAt(j) == IF At(t, j) < t_change THEN K_high ELSE K_low
PV(j) == At(P, j).v

C2_MatchesReferenceEuler ==
  (pc = "done" /\ StrictlyIncreasing(t) /\ Uniform(t) /\ K_high > 0 /\ K_low > 0) =>
    \A j \in 1 .. Len(t) - 1 :
      PV(j) = FAdd(PV(j - 1),
                   FMul(logistic_piecewise(At(P, j - 1), vT(j - 1), vr,
                                           Val(Num(K_high), "py"), Val(Num(K_low), "py"),
                                           Val(Num(t_change), "py")).v,
                        dt.v))

\* C3: the step from grid index i - 1 to i advances by t[i] - t[i-1] (stated
\* for strictly increasing grids and positive capacities).
C3_StepIsGridSpacing ==
  (Running /\ StrictlyIncreasing(t) /\ K_high > 0 /\ K_low > 0) =>
    \A j \in 1 .. Len(P) - 1 :
      PV(j) = FAdd(PV(j - 1),
                   FMul(logistic_growth(At(P, j - 1), vT(j), vr, Val(Num(KAt(j)), "py")).v,
                        Num(At(t, j) - At(t, j - 1))))

\* C4: the step that produces P[i] uses K_high exactly when t[i] < t_change
\* and K_low otherwise; on a strictly increasing grid a step that follows a
\* step with K_low uses K_low too.
C4_StepUsesCurrentTime ==
  (pc = "loop" /\ i > 1) => K = (IF At(t, i - 1) < t_change THEN K_high ELSE K_low)

C4_OnceLowAlwaysLow ==
  (pc = "loop" /\ i > 1 /\ i' = i + 1 /\ StrictlyIncreasing(t)
     /\ ~(At(t, i - 1) < t_change)) => K' = K_low

C4_CapacityChoice == [](C4_StepUsesCurrentTime) /\ [][C4_OnceLowAlwaysLow]_vars

C4_Witness ==
  /\ pc = "loop" /\ i = 3 /\ StrictlyIncreasing(t) /\ K_high # K_low /\ P0 > 0
  /\ ~(At(t, 1) < t_change) /\ K = K_low

\* C5: a malformed grid (fewer than 2 points, or not strictly increasing)
\* yields no trajectory.
C5_MalformedGridRejected ==
  ((Len(t) < 2 \/ ~StrictlyIncreasing(t)) /\ K_high > 0 /\ K_low > 0) => pc # "done"

\* C6: a capacity of 0 never aborts the run with a division by zero (stated
\* for well-formed grids and a positive P0).
C6_ZeroCapacityNeverRaises ==
  (Len(t) >= 2 /\ StrictlyIncreasing(t) /\ P0 > 0) => err # "ZeroDivisionError"

\* C7 as stated: from the imports-only kernel every scenario cell completes,
\* whatever the order, with the trajectory it has in notebook order.
C7_ScenariosIndependent ==
  \A c \in DOMAIN outcome :
    /\ outcome[c] # "NameError"
    /\ outcome[c] = "ok" =>
         /\ Bound(ns, Trajectory(c))
         /\ ns[Trajectory(c)] = NotebookOrder[Trajectory(c)]

\* C7 amended: the logistic and Lotka-Volterra cells always complete; the
\* piecewise and removal cells complete exactly when the logistic cell has
\* completed before them; a cell that completes binds the trajectory it has in
\* notebook order.
C7_CompletedMatchesNotebookOrder ==
  /\ \A c \in DOMAIN outcome :
       outcome[c] = "ok" =>
         /\ Bound(ns, Trajectory(c))
         /\ ns[Trajectory(c)] = NotebookOrder[Trajectory(c)]
  /\ \A c \in DOMAIN outcome \cap {"logistic", "lotka_volterra"} :
       outcome[c] # "NameError"

C7_NeedsLogisticFirst ==
  /\ RunPiecewise => (outcome'["piecewise"] = "ok" <=> outcome["logistic"] = "ok")
  /\ RunRemoval => (outcome'["removal"] = "ok" <=> outcome["logistic"] = "ok")

C7_DependsOnlyOnLogistic ==
  [](C7_CompletedMatchesNotebookOrder) /\ [][C7_NeedsLogisticFirst]_vars

C7_Witness ==
  /\ DOMAIN outcome = CellNames
  /\ outcome["removal"] = "ok" /\ outcome["piecewise"] = "ok"
  /\ outcome["lotka_volterra"] = "notrun"
  /\ ns["P3"] = NotebookOrder["P3"] /\ ns["P4"] = NotebookOrder["P4"]

\* C8: with r > 0 and K > 0, a removal h above r*K/4 makes the derivative
\* negative at every population; with 0 < h the derivative is negative at
\* every population P >= K, so every equilibrium lies strictly below K.
QuarterRK == FDiv(FMul(hArgs.r, Num(hArgs.K)), Num(4))

C8_RemovalLowersEquilibrium ==
  (hOut # <<>> /\ hArgs.K > 0) =>
    /\ FLess(QuarterRK, Num(hArgs.h)) => FLess(hOut[1].v, Num(0))
    /\ (hArgs.h > 0 /\ FLeq(Num(hArgs.K), hArgs.P)) => FLess(hOut[1].v, Num(0))
    /\ (hArgs.h > 0 /\ hOut[1].v = Num(0)) =>
         FLess(hArgs.P, Num(hArgs.K)) /\ FLeq(Num(hArgs.h), QuarterRK)

C8_Witness ==
  /\ hOut # <<>> /\ hArgs.K > 0 /\ hArgs.h > 0
  /\ hOut[1].v = Num(0) /\ FLess(Num(0), hArgs.P)

\* C9 as stated: constant capacity (t_change beyond the grid), 0 < P0 < K:
\* every entry exceeds the previous one and is at most K, whatever the step.
LogisticCase ==
  /\ Running /\ StrictlyIncreasing(t)
  /\ \A j \in 1 .. Len(t) : t[j] < t_change
  /\ 0 < P0 /\ P0 < K_high

RisesWithinK ==
  \A j \in 1 .. Len(P) - 1 :
    FLess(PV(j - 1), PV(j)) /\ FLeq(PV(j), Num(K_high))

C9_MonotoneEveryStep == LogisticCase => RisesWithinK

\* C9 amended: the same, provided the step satisfies r * dt <= 1.
C9_MonotoneSmallStep ==
  (LogisticCase /\ FLeq(FMul(r, dt.v), Num(1))) => RisesWithinK

C9_Witness ==
  /\ LogisticCase /\ pc = "done" /\ Len(t) = MaxLen
  /\ FLeq(FMul(r, dt.v), Num(1)) /\ FLess(PV(1), PV(2))

\* C10 as stated: K_low < K_high and 0 < P0 < K_high; a step taken with K_low
\* from a population above K_low lowers it without going below K_low, and a
\* population equal to K_low stays there (stated for 0 < K_low).
DropCase ==
  /\ Running /\ StrictlyIncreasing(t)
  /\ 0 < K_low /\ K_low < K_high
  /\ 0 < P0 /\ P0 < K_high

C10_DropsWithoutUndershoot ==
  DropCase =>
    \A j \in 1 .. Len(P) - 1 :
      KAt(j) = K_low =>
        /\ FLess(Num(K_low), PV(j - 1)) =>
             FLess(PV(j), PV(j - 1)) /\ FLeq(Num(K_low), PV(j))
        /\ PV(j - 1) = Num(K_low) => PV(j) = Num(K_low)

\* C10 amended: the population does not go below K_low in a step with
\* r * dt * P[i-1] <= K_low.
C10_DropsSmallStep ==
  DropCase =>
    \A j \in 1 .. Len(P) - 1 :
      KAt(j) = K_low =>
        /\ FLess(Num(K_low), PV(j - 1)) =>
             /\ FLess(PV(j), PV(j - 1))
             /\ FLeq(FMul(FMul(r, dt.v), PV(j - 1)), Num(K_low)) =>
                  FLeq(Num(K_low), PV(j))
        /\ PV(j - 1) = Num(K_low) => PV(j) = Num(K_low)

C10_Witness ==
  /\ DropCase /\ pc = "done" /\ Len(t) = MaxLen
  /\ KAt(1) = K_high /\ KAt(2) = K_low
  /\ FLess(Num(K_low), PV(1))
  /\ FLeq(FMul(FMul(r, dt.v), PV(1)), Num(K_low))
  /\ FLess(PV(2), PV(1)) /\ FLess(Num(K_low), PV(2))
====
